---- MODULE Spec2Model ----
(***************************************************************************)
(* The chain core of go-qrl (core/chain/chain.go): block admission, the    *)
(* heaviest-chain rule, fork recovery (GetForkPoint, Rollback, AddChain),  *)
(* and the genesis bootstrap, over a persistent store with atomic batches. *)
(*                                                                         *)
(* The store, the blocks, the block metadata, the address states and the   *)
(* transaction pool are collaborators whose code is outside chain.go; they *)
(* are modelled by their contract.  Everything chain.go does is modelled   *)
(* statement by statement; one step of the model holds at most one write   *)
(* to the store, so that the process can stop between any two writes.      *)
(***************************************************************************)
EXTENDS Integers, Sequences, FiniteSets, TLC

\* nil: a nil *block.Block, a nil/empty []byte hash
None == "none"

\* an absent chain height (GetChainHeight returned an error)
NoHeight == 0 - 1

\* uint64 arithmetic wraps.  The modulus is held at 2^30 because the model
\* checker's integers are 32 bits wide; every block number of the model is
\* far below either modulus, so a wrapped value compares the same way.
WordModulus == 2 ^ 30

SubU64(a, b) == ((a - b) + WordModulus) % WordModulus

-----------------------------------------------------------------------------
(* Bounds of the exploration *)

\* AddBlock calls that may be started
MaxCalls == 2

\* times the process may be killed in the middle of an operation
MaxCrashes == 1

\* transactions that may be handed to the pool from outside
MaxPoolAdds == 1

\* threads calling AddBlock
Callers == {"c1", "c2"}

\* values of config.Dev.ReorgLimit explored
ReorgLimits == {0, 1}

-----------------------------------------------------------------------------
(* The blocks that exist.  A block is identified by its header hash.       *)

Addrs == {"a", "b"}

CB(to) == [kind |-> "coinbase", id |-> "cb", from |-> None, to |-> to, amount |-> 1, ots |-> 0]

TX(id, from, to, amount, ots) ==
    [kind |-> "transfer", id |-> id, from |-> from, to |-> to, amount |-> amount, ots |-> ots]

\* header_hash |-> the fields of the block that chain.go reads.
\* total_difficulty is the cumulative difficulty of the block's metadata:
\* the parent's plus the block's own (positive) difficulty.
\*   G  - B1 - B2          the first chain
\*      \ S1 - S2          a branch that ends heavier than B2
\*      \ F1              as heavy as B1; re-uses the OTS index of the genesis transfer
\*      \ Big              over the block size limit
\*   X0                   the genesis block of another chain
BlockTable ==
    [ G   |-> [prev |-> None, block_number |-> 0, total_difficulty |-> 1, block_difficulty |-> 1,
               oversize |-> FALSE, txs |-> << CB("b"), TX("tg", "a", "b", 1, 0) >>],
      B1  |-> [prev |-> "G", block_number |-> 1, total_difficulty |-> 3, block_difficulty |-> 2,
               oversize |-> FALSE, txs |-> << CB("b"), TX("t1", "a", "b", 1, 1) >>],
      B2  |-> [prev |-> "B1", block_number |-> 2, total_difficulty |-> 4, block_difficulty |-> 1,
               oversize |-> FALSE, txs |-> << CB("a") >>],
      S1  |-> [prev |-> "G", block_number |-> 1, total_difficulty |-> 2, block_difficulty |-> 1,
               oversize |-> FALSE, txs |-> << CB("b"), TX("t2", "a", "b", 1, 2) >>],
      S2  |-> [prev |-> "S1", block_number |-> 2, total_difficulty |-> 5, block_difficulty |-> 3,
               oversize |-> FALSE, txs |-> << CB("b") >>],
      F1  |-> [prev |-> "G", block_number |-> 1, total_difficulty |-> 3, block_difficulty |-> 2,
               oversize |-> FALSE, txs |-> << CB("b"), TX("t3", "a", "b", 1, 0) >>],
      Big |-> [prev |-> "G", block_number |-> 1, total_difficulty |-> 6, block_difficulty |-> 5,
               oversize |-> TRUE, txs |-> << CB("a") >>],
      X0  |-> [prev |-> None, block_number |-> 0, total_difficulty |-> 1, block_difficulty |-> 1,
               oversize |-> FALSE, txs |-> << CB("a") >>] ]

Hash == DOMAIN BlockTable

Blk(h) == BlockTable[h]

genesisBlock == "G"

\* the blocks that reach AddBlock from the network
Offered == {"B1", "B2", "S1", "S2", "F1", "Big"}

\* genesis.GenesisBalance()
GenesisBalance == [a |-> 3, b |-> 0]

Heights == {Blk(h).block_number : h \in Hash}

\* block.Transactions() as a set of transaction ids (the pool's view)
TxIds(h) == {Blk(h).txs[i].id : i \in 1..Len(Blk(h).txs)} \ {"cb"}

AllTxIds == UNION {TxIds(h) : h \in Hash \ {genesisBlock}}

Reverse(s) == [i \in 1..Len(s) |-> s[Len(s) + 1 - i]]

-----------------------------------------------------------------------------
(* Address states: balance and consumed one-time-signature indices.        *)

DefaultAddressesState == [balance |-> [x \in Addrs |-> 0], ots |-> {}]

\* tx.ApplyStateChanges: a coinbase credits its recipient; a transfer fails
\* on an insufficient balance or a consumed OTS index.
ApplyTx(as, tx) ==
    IF tx.kind = "coinbase"
    THEN [ok |-> TRUE, st |-> [as EXCEPT !.balance[tx.to] = @ + tx.amount]]
    ELSE IF as.balance[tx.from] < tx.amount \/ <<tx.from, tx.ots>> \in as.ots
         THEN [ok |-> FALSE, st |-> as]
         ELSE [ok |-> TRUE,
               st |-> [balance |-> [as.balance EXCEPT ![tx.from] = @ - tx.amount,
                                                      ![tx.to] = @ + tx.amount],
                       ots |-> as.ots \cup {<<tx.from, tx.ots>>}]]

RECURSIVE ApplyTxsFrom(_, _, _)
ApplyTxsFrom(as, txs, i) ==
    IF i > Len(txs) THEN [ok |-> TRUE, st |-> as]
    ELSE LET r == ApplyTx(as, txs[i])
         IN IF r.ok THEN ApplyTxsFrom(r.st, txs, i + 1) ELSE [ok |-> FALSE, st |-> as]

\* block.ApplyStateChanges(addressesState)
ApplyStateChanges(as, h) == ApplyTxsFrom(as, Blk(h).txs, 1)

\* tx.RevertStateChanges followed by UnsetOTSKey
RevertTx(as, tx) ==
    IF tx.kind = "coinbase"
    THEN [as EXCEPT !.balance[tx.to] = @ - tx.amount]
    ELSE [balance |-> [as.balance EXCEPT ![tx.to] = @ - tx.amount,
                                         ![tx.from] = @ + tx.amount],
          ots |-> as.ots \ {<<tx.from, tx.ots>>}]

-----------------------------------------------------------------------------
(* The program state.                                                      *)

VARIABLES
    \* the persistent store (state.State over leveldb)
    blocks,              \* header hashes of the stored blocks
    blockNumberMapping,  \* height -> header hash of the canonical block, or None
    chainHeight,         \* the chain-height marker, or NoHeight
    addressesState,      \* the persisted address states
    forkState,           \* the persisted ForkState record
    txMetadata,          \* blocks whose transactions are indexed (UpdateTxMetadata)
    \* the Chain object (lost when the process stops)
    lastBlock,           \* c.lastBlock
    currentDifficulty,   \* c.currentDifficulty
    triggerMiner,        \* c.triggerMiner
    txPool,              \* c.txPool
    staleChecked,        \* the argument of the latest txPool.CheckStale
    lock,                \* c.lock: the caller that holds it, or None
    op,                  \* the operation in progress: its position and locals
    \* the callers of AddBlock
    cpc, carg,
    raced,               \* caller -> a call with the same block took the lock while it waited
    \* configuration
    reorgLimit,          \* c.config.Dev.ReorgLimit
    \* history of the run
    entry,               \* the state AddBlock found when it took the lock
    pending,             \* what the admission in progress yields when not interrupted
    accepted,            \* header hash -> AddBlock calls that returned true
    calls, crashes, poolAdds

storeVars == <<blocks, blockNumberMapping, chainHeight, addressesState, forkState, txMetadata>>
chainVars == <<lastBlock, currentDifficulty, triggerMiner, txPool, staleChecked, lock, op>>
callerVars == <<cpc, carg, raced>>
historyVars == <<entry, pending, accepted, calls, crashes, poolAdds>>
vars == <<storeVars, chainVars, callerVars, reorgLimit, historyVars>>

\* generated.ForkState; present = FALSE when no record is persisted
NoForkState ==
    [present |-> FALSE, initiator |-> None, forkPoint |-> None,
     newPath |-> <<>>, oldPath |-> <<>>]

\* state.GetBatch(): an empty leveldb.Batch
EmptyBatch ==
    [blocks |-> {}, mapping |-> {}, chainHeight |-> NoHeight,
     putAddr |-> FALSE, addr |-> DefaultAddressesState,
     putFork |-> FALSE, fork |-> NoForkState,
     txMetaAdd |-> {}, txMetaDel |-> {}]

\* the frame of an operation: position and local variables
IdleOp ==
    [pc |-> "idle", kind |-> "none", block |-> None, ret |-> "none",
     batch |-> EmptyBatch, fs |-> NoForkState,
     forkHeaderHash |-> None, hashPath |-> <<>>, oldHashPath |-> <<>>,
     rbFs |-> FALSE, rbHashPath |-> <<>>,
     acPath |-> <<>>, acI |-> 0, phase |-> "main", raced |-> FALSE]

DownOp == [IdleOp EXCEPT !.pc = "down"]

\* the whole state as one record, so that the operations are functions on it
Cur ==
    [blocks |-> blocks, blockNumberMapping |-> blockNumberMapping,
     chainHeight |-> chainHeight, addressesState |-> addressesState,
     forkState |-> forkState, txMetadata |-> txMetadata,
     lastBlock |-> lastBlock, currentDifficulty |-> currentDifficulty,
     triggerMiner |-> triggerMiner, txPool |-> txPool,
     staleChecked |-> staleChecked, reorgLimit |-> reorgLimit, op |-> op]

\* the process stops (a panic, a kill): the Chain object is gone, the store stays
Stopped(s) ==
    [s EXCEPT !.lastBlock = None, !.currentDifficulty = 0, !.triggerMiner = FALSE,
              !.txPool = {}, !.staleChecked = NoHeight, !.op = DownOp]

\* a nil pointer is dereferenced, or a slice is indexed out of range
Panic(s) == Stopped(s)

\* the operation returns ret to its caller
Return(s, ret) ==
    [s EXCEPT !.op = [IdleOp EXCEPT !.kind = s.op.kind, !.block = s.op.block,
                                    !.raced = s.op.raced, !.ret = ret]]

-----------------------------------------------------------------------------
(* The store.                                                              *)

\* state.GetBlockByNumber: the mapping at n, then the block it names
GetBlockByNumber(s, n) ==
    IF n \in Heights /\ s.blockNumberMapping[n] # None
       /\ s.blockNumberMapping[n] \in s.blocks
    THEN s.blockNumberMapping[n]
    ELSE None

\* state.GetBlockMetadata(h).TotalDifficulty()
TotalDifficulty(h) == Blk(h).total_difficulty

\* state.WriteBatch: every write of the batch lands at once
WriteBatch(s) ==
    LET b == s.op.batch
    IN [s EXCEPT
          !.blocks = @ \cup b.blocks,
          !.blockNumberMapping =
              [n \in Heights |-> IF \E h \in Hash : <<n, h>> \in b.mapping
                                 THEN CHOOSE h \in Hash : <<n, h>> \in b.mapping
                                 ELSE @[n]],
          !.chainHeight = IF b.chainHeight # NoHeight THEN b.chainHeight ELSE @,
          !.addressesState = IF b.putAddr THEN b.addr ELSE @,
          !.forkState = IF b.putFork THEN b.fork ELSE @,
          !.txMetadata = (@ \cup b.txMetaAdd) \ b.txMetaDel,
          !.op.batch = EmptyBatch]

-----------------------------------------------------------------------------
(* Apply and revert.                                                       *)

\* state.PutBlock(block, batch)
PutBlock(s, h) == [s EXCEPT !.op.batch.blocks = @ \cup {h}]

\* applyBlock with PutAddressesState left out
applyBlockWithoutPut(s, h) ==
    [ok |-> ApplyStateChanges(s.addressesState, h).ok, s |-> s]

\* applyBlock with PutAddressesState called before the result is looked at,
\* and without the batch: a block that fails leaves what it had applied so far
applyBlockUnbatched(s, h) ==
    LET r == ApplyStateChanges(s.addressesState, h)
        partial == ApplyTx(s.addressesState, Blk(h).txs[1]).st
    IN [ok |-> r.ok,
        s |-> [s EXCEPT !.addressesState = IF r.ok THEN r.st ELSE partial]]

\* Chain.applyBlock: materialise the address states from the store, apply
\* the block to them, write them into the batch
applyBlock(s, h) ==
    LET r == ApplyStateChanges(s.addressesState, h)
    IN IF r.ok
       THEN [ok |-> TRUE, s |-> [s EXCEPT !.op.batch.putAddr = TRUE, !.op.batch.addr = r.st]]
       ELSE [ok |-> FALSE, s |-> s]

\* updateBlockNumberMapping with Headerhash and PrevHeaderhash exchanged
updateBlockNumberMappingSwapped(s, h) ==
    [s EXCEPT !.op.batch.mapping = @ \cup {<<Blk(h).block_number, Blk(h).prev>>}]

\* Chain.updateBlockNumberMapping
updateBlockNumberMapping(s, h) ==
    [s EXCEPT !.op.batch.mapping = @ \cup {<<Blk(h).block_number, h>>}]

\* updateChainState with RemoveTxInBlock left out
updateChainStateKeepsPool(s, h) ==
    LET s1 == updateBlockNumberMapping([s EXCEPT !.lastBlock = h], h)
    IN [s1 EXCEPT !.op.batch.chainHeight = Blk(h).block_number,
                  !.op.batch.txMetaAdd = @ \cup {h}]

\* Chain.updateChainState: the tip and the pool change at once, the store
\* only when the batch is written
updateChainState(s, h) ==
    LET s1 == updateBlockNumberMapping([s EXCEPT !.lastBlock = h], h)
    IN [s1 EXCEPT !.txPool = @ \ TxIds(h),
                  !.op.batch.chainHeight = Blk(h).block_number,
                  !.op.batch.txMetaAdd = @ \cup {h}]

\* The indices the loop `for i := len(txs) - 1; i <= 0; i--` visits before it
\* stops or leaves the slice: none when there are two transactions or more.
RevertLoopRuns(h) == Len(Blk(h).txs) - 1 <= 0

\* Chain.RemoveBlockFromMainchain.  When the loop runs it reaches index -1
\* and the slice access panics; otherwise no transaction is reverted.
\* RemoveBlockNumberMapping takes no batch: it acts on the store at once.
RemoveBlockFromMainchain(s, h) ==
    IF RevertLoopRuns(h)
    THEN Panic(s)
    ELSE [s EXCEPT !.txPool = @ \cup TxIds(h),
                   !.blockNumberMapping[Blk(h).block_number] = None,
                   !.op.batch.chainHeight = SubU64(Blk(h).block_number, 1),
                   !.op.batch.txMetaDel = @ \cup {h},
                   !.op.batch.putAddr = TRUE,
                   !.op.batch.addr = s.addressesState]

-----------------------------------------------------------------------------
(* Fork recovery.                                                          *)

RECURSIVE GetForkPointFrom(_, _, _)
GetForkPointFrom(s, b, path) ==
    IF GetBlockByNumber(s, Blk(b).block_number) = b
    THEN [ok |-> TRUE, forkPoint |-> b, hashPath |-> path]
    ELSE IF Blk(b).block_number = 0
    THEN [ok |-> FALSE, forkPoint |-> None, hashPath |-> <<>>]
    ELSE IF Blk(b).prev \notin s.blocks
    THEN [ok |-> FALSE, forkPoint |-> None, hashPath |-> <<>>]
    ELSE GetForkPointFrom(s, Blk(b).prev, Append(path, b))

\* GetForkPoint with the hash path in the order of the chain
GetForkPointReversed(s, h) ==
    [GetForkPointFrom(s, h, <<>>) EXCEPT !.hashPath = Reverse(@)]

\* Chain.GetForkPoint: walk the parents until a block of the main chain
GetForkPoint(s, h) == GetForkPointFrom(s, h, <<>>)

\* forkRecovery returns v: AddBlock returns it (blockFlag), Load returns nil
forkRecoveryReturn(s, v) ==
    IF s.op.kind = "add"
    THEN Return(s, IF v THEN "true" ELSE "false")
    ELSE Return(s, "nil")

\* AddChain without its first loop
AddChainStartNoSkip(s, path) == 1

\* the first loop of Chain.AddChain: skip up to and including the tip
AddChainStart(s, path) ==
    IF \E i \in 1..Len(path) : path[i] = s.lastBlock
    THEN 1 + CHOOSE i \in 1..Len(path) :
                 /\ path[i] = s.lastBlock
                 /\ \A j \in 1..(i - 1) : path[j] # s.lastBlock
    ELSE 1

AddChainBegin(s, path) ==
    [s EXCEPT !.op.acPath = path, !.op.acI = AddChainStart(s, path), !.op.pc = "ac_iter"]

\* Chain.Rollback returns its hashPath to forkRecovery (lines 407, 416),
\* which goes on with AddChain (lines 412, 417)
RollbackReturn(s) ==
    IF s.op.phase = "main"
    THEN AddChainBegin([s EXCEPT !.op.oldHashPath = s.op.rbHashPath], Reverse(s.op.hashPath))
    ELSE AddChainBegin(s, Reverse(s.op.oldHashPath))

\* Whether Rollback leaves its loop at the `break` (line 290)
RollbackBreaks(b, mainchainBlock) == b = mainchainBlock

\* One pass of the loop of Chain.Rollback, up to its WriteBatch
RollbackIter(s) ==
    IF s.lastBlock = None THEN Panic(s)
    ELSE IF s.lastBlock = s.op.forkHeaderHash THEN RollbackReturn(s)
    ELSE IF s.lastBlock \notin s.blocks THEN Panic(s)
    ELSE LET mainchainBlock == GetBlockByNumber(s, Blk(s.lastBlock).block_number)
         IN IF mainchainBlock = None THEN Panic(s)
            ELSE IF RollbackBreaks(s.lastBlock, mainchainBlock) THEN RollbackReturn(s)
            ELSE LET s1 == [s EXCEPT !.op.rbHashPath = Append(@, s.lastBlock),
                                     !.op.batch = EmptyBatch]
                     s2 == RemoveBlockFromMainchain(s1, s.lastBlock)
                     fs1 == [s.op.fs EXCEPT !.oldPath = Append(@, s.lastBlock)]
                 IN IF s2.op.pc = "down" THEN s2
                    ELSE IF s.op.rbFs
                    THEN [s2 EXCEPT !.op.fs = fs1,
                                    !.op.batch.putFork = TRUE,
                                    !.op.batch.fork = fs1,
                                    !.op.pc = "rb_commit"]
                    ELSE [s2 EXCEPT !.op.pc = "rb_commit"]

\* Chain.Rollback lines 303-305: write the batch, move the tip to the parent
RollbackCommit(s) ==
    LET s1 == WriteBatch(s)
        p == Blk(s.lastBlock).prev
    IN [s1 EXCEPT !.lastBlock = IF p \in s1.blocks THEN p ELSE None,
                  !.op.pc = "rb"]

\* AddChain returns ok: to forkRecovery (lines 412-424), or to the caller that
\* called it on its own
AddChainReturn(s, ok) ==
    IF s.op.kind = "addchain"
    THEN Return(s, IF ok THEN "true" ELSE "false")
    ELSE IF s.op.phase = "main"
    THEN IF ok
         THEN forkRecoveryReturn([s EXCEPT !.triggerMiner = TRUE], TRUE)
         ELSE [s EXCEPT !.op.phase = "restore", !.op.rbFs = FALSE,
                        !.op.rbHashPath = <<>>, !.op.pc = "rb"]
    ELSE forkRecoveryReturn(s, FALSE)

\* AddChain without DeleteForkState
AddChainIterKeepsForkState(s) ==
    IF s.op.acI > Len(s.op.acPath)
    THEN AddChainReturn(s, TRUE)
    ELSE LET h == s.op.acPath[s.op.acI]
         IN IF h \notin s.blocks THEN Panic(s)
            ELSE LET a == applyBlock([s EXCEPT !.op.batch = EmptyBatch], h)
                 IN IF ~a.ok THEN AddChainReturn(a.s, FALSE)
                    ELSE [updateChainState(a.s, h) EXCEPT !.op.pc = "ac_commit"]

\* One pass of the second loop of Chain.AddChain, up to its WriteBatch; after
\* the last pass DeleteForkState, which acts on the store at once
AddChainIter(s) ==
    IF s.op.acI > Len(s.op.acPath)
    THEN AddChainReturn([s EXCEPT !.forkState = NoForkState], TRUE)
    ELSE LET h == s.op.acPath[s.op.acI]
         IN IF h \notin s.blocks THEN Panic(s)
            ELSE LET a == applyBlock([s EXCEPT !.op.batch = EmptyBatch], h)
                 IN IF ~a.ok THEN AddChainReturn(a.s, FALSE)
                    ELSE [updateChainState(a.s, h) EXCEPT !.op.pc = "ac_commit"]

AddChainCommit(s) ==
    [WriteBatch(s) EXCEPT !.op.acI = @ + 1, !.op.pc = "ac_iter"]

\* The locals forkHeaderHash and hashPath of forkRecovery after lines 383-395.
\* In the else branch `forkHeaderHash, hashPath, err := c.GetForkPoint(block)`
\* declares new variables; the outer ones keep their zero values.
ForkRecoveryLocals(fs, fp) ==
    IF fs.forkPoint # None
    THEN [forkHeaderHash |-> fs.forkPoint, hashPath |-> fs.newPath]
    ELSE [forkHeaderHash |-> None, hashPath |-> <<>>]

\* Chain.forkRecovery lines 380-410
forkRecoveryStart(s) ==
    LET fs0 == s.op.fs
        resumed == fs0.forkPoint # None
        fp == GetForkPoint(s, s.op.block)
        fs1 == IF resumed THEN fs0
               ELSE [fs0 EXCEPT !.forkPoint = fp.forkPoint, !.newPath = fp.hashPath]
        loc == ForkRecoveryLocals(fs0, fp)
        s1 == [s EXCEPT !.op.fs = fs1,
                        !.forkState = IF resumed THEN @ ELSE fs1,
                        !.op.forkHeaderHash = loc.forkHeaderHash,
                        !.op.hashPath = loc.hashPath,
                        !.op.phase = "main"]
        last == IF Len(fs1.oldPath) > 0 THEN fs1.oldPath[Len(fs1.oldPath)] ELSE None
        rollbackDone == /\ last # None
                        /\ last \in s.blocks
                        /\ Blk(last).prev = fs1.forkPoint
    IN IF ~rollbackDone
       THEN [s1 EXCEPT !.op.rbFs = TRUE, !.op.rbHashPath = <<>>, !.op.pc = "rb"]
       ELSE AddChainBegin([s1 EXCEPT !.op.oldHashPath = fs1.oldPath],
                          Reverse(s1.op.hashPath))

-----------------------------------------------------------------------------
(* Block admission.                                                        *)

\* Chain.Height()
Height(s) == Blk(s.lastBlock).block_number

\* Chain.GetLastBlock(): like Height(), it reads c.lastBlock without the lock
GetLastBlock(s) == s.lastBlock

\* AddBlock line 203, in uint64
BeyondReorgLimit(s, h) == Blk(h).block_number < SubU64(Height(s), s.reorgLimit)

\* addBlock with the tip moved whatever the difficulty of the block
addBlockMovesTipAlways(s, h) ==
    IF Blk(h).oversize THEN Return(s, "false")
    ELSE LET a == IF s.lastBlock = Blk(h).prev THEN applyBlock(s, h) ELSE [ok |-> TRUE, s |-> s]
         IN IF ~a.ok THEN Return(a.s, "false")
            ELSE [updateChainState(PutBlock(a.s, h), h) EXCEPT !.op.pc = "ab_commit"]

\* Chain.addBlock, up to the write of the batch
addBlock(s, h) ==
    IF Blk(h).oversize THEN Return(s, "false")
    ELSE LET extends == s.lastBlock = Blk(h).prev
             a == IF extends THEN applyBlock(s, h) ELSE [ok |-> TRUE, s |-> s]
             s1 == PutBlock(a.s, h)
             fs == [present |-> TRUE, initiator |-> h, forkPoint |-> None,
                    newPath |-> <<>>, oldPath |-> <<>>]
         IN IF ~a.ok THEN Return(a.s, "false")
            ELSE IF TotalDifficulty(h) > TotalDifficulty(s.lastBlock)
            THEN IF ~extends
                 THEN [s1 EXCEPT !.op.fs = fs,
                                 !.op.batch.putFork = TRUE,
                                 !.op.batch.fork = fs,
                                 !.op.pc = "ab_forkcommit"]
                 ELSE [updateChainState(s1, h) EXCEPT !.staleChecked = Blk(h).block_number,
                                                      !.triggerMiner = TRUE,
                                                      !.op.pc = "ab_commit"]
            ELSE [s1 EXCEPT !.op.pc = "ab_commit"]

\* AddBlock with the duplicate check left out
AddBlockBeginNoDuplicateCheck(s) ==
    IF s.lastBlock = None THEN Panic(s)
    ELSE IF BeyondReorgLimit(s, s.op.block) THEN Return(s, "false")
    ELSE addBlock([s EXCEPT !.op.batch = EmptyBatch], s.op.block)

\* Chain.AddBlock, from the lock to the call of addBlock
AddBlockBegin(s) ==
    IF s.lastBlock = None THEN Panic(s)
    ELSE IF BeyondReorgLimit(s, s.op.block) THEN Return(s, "false")
    ELSE IF s.op.block \in s.blocks THEN Return(s, "false")
    ELSE addBlock([s EXCEPT !.op.batch = EmptyBatch], s.op.block)

\* AddBlock lines 217-222: the batch of a block that opened no fork
AddBlockCommit(s) == Return(WriteBatch(s), "true")

\* addBlock lines 189-190: the batch with the block and the new ForkState
AddBlockForkCommit(s) == [WriteBatch(s) EXCEPT !.op.pc = "fr_start"]

-----------------------------------------------------------------------------
(* Genesis bootstrap.                                                      *)

\* Load lines 120-126: the coinbase and the transfers are applied one after
\* the other, their results unchecked
RECURSIVE ApplyUnchecked(_, _, _)
ApplyUnchecked(as, txs, i) ==
    IF i > Len(txs) THEN as ELSE ApplyUnchecked(ApplyTx(as, txs[i]).st, txs, i + 1)

\* Load lines 105-114: the recipients of the genesis transfers and of the
\* genesis coinbase
GenesisRecipients ==
    {Blk(genesisBlock).txs[i].to : i \in 1..Len(Blk(genesisBlock).txs)}

\* Load lines 97-126: the genesis balances; the recipients get a default
\* state; then the coinbase and the transfers are applied
GenesisAddressesState ==
    ApplyUnchecked([balance |-> [a |-> IF "a" \in GenesisRecipients THEN 0 ELSE GenesisBalance.a,
                                 b |-> IF "b" \in GenesisRecipients THEN 0 ELSE GenesisBalance.b],
                    ots |-> {}],
                   Blk(genesisBlock).txs, 1)

\* Load, the branch of a store that has a chain height (lines 132-148)
LoadWarm(s) ==
    LET tip == GetBlockByNumber(s, s.chainHeight)
        s1 == [s EXCEPT !.lastBlock = tip,
                        !.currentDifficulty = Blk(tip).block_difficulty]
    IN IF tip = None THEN Panic(s)
       ELSE IF ~s.forkState.present THEN Return(s1, "nil")
       ELSE IF s.forkState.initiator \notin s.blocks THEN Return(s1, "error")
       ELSE [s1 EXCEPT !.op.block = s.forkState.initiator,
                       !.op.fs = s.forkState,
                       !.op.pc = "fr_start"]

\* Load, the branch of an empty store (lines 82-130): each Put is given a nil
\* batch and acts on the store at once.  c.lastBlock is not assigned.
LoadBegin(s) ==
    IF s.chainHeight # NoHeight THEN LoadWarm(s)
    ELSE [s EXCEPT !.blocks = @ \cup {genesisBlock}, !.op.pc = "ld_mapping"]

LoadPutMapping(s) ==
    [s EXCEPT !.blockNumberMapping[Blk(genesisBlock).block_number] = genesisBlock,
              !.op.pc = "ld_addresses"]

LoadPutAddresses(s) ==
    [s EXCEPT !.addressesState = GenesisAddressesState, !.op.pc = "ld_txmetadata"]

LoadPutTxMetadata(s) ==
    [s EXCEPT !.txMetadata = @ \cup {genesisBlock}, !.op.pc = "ld_height"]

LoadPutHeight(s) == Return([s EXCEPT !.chainHeight = 0], "nil")

\* the caller of RemoveBlockFromMainchain writes the batch it had passed
RemoveBatchWrite(s) == Return(WriteBatch(s), "nil")

-----------------------------------------------------------------------------
(* One step of the operation in progress.                                  *)

LoadPcs == {"ld_begin", "ld_mapping", "ld_addresses", "ld_txmetadata", "ld_height"}
AddPcs == {"ab_begin", "ab_commit", "ab_forkcommit"}
ForkPcs == {"fr_start", "rb", "rb_commit", "ac_iter", "ac_commit"}

StepOf(s) ==
    CASE s.op.pc = "ld_begin"      -> LoadBegin(s)
      [] s.op.pc = "ld_mapping"    -> LoadPutMapping(s)
      [] s.op.pc = "ld_addresses"  -> LoadPutAddresses(s)
      [] s.op.pc = "ld_txmetadata" -> LoadPutTxMetadata(s)
      [] s.op.pc = "ld_height"     -> LoadPutHeight(s)
      [] s.op.pc = "ab_begin"      -> AddBlockBegin(s)
      [] s.op.pc = "ab_commit"     -> AddBlockCommit(s)
      [] s.op.pc = "ab_forkcommit" -> AddBlockForkCommit(s)
      [] s.op.pc = "fr_start"      -> forkRecoveryStart(s)
      [] s.op.pc = "rb"            -> RollbackIter(s)
      [] s.op.pc = "rb_commit"     -> RollbackCommit(s)
      [] s.op.pc = "ac_iter"       -> AddChainIter(s)
      [] s.op.pc = "ac_commit"     -> AddChainCommit(s)
      [] s.op.pc = "rm_commit"     -> RemoveBatchWrite(s)
      [] OTHER                     -> s

\* the operation in progress run to its return (or to the panic that ends it)
RECURSIVE RunToEnd(_)
RunToEnd(s) == IF s.op.pc \in {"idle", "down"} THEN s ELSE RunToEnd(StepOf(s))

-----------------------------------------------------------------------------
(* The state machine.                                                      *)

NoPending == [active |-> FALSE, ok |-> FALSE, tip |-> None, addr |-> DefaultAddressesState]

\* the state an operation found, without the operation's own frame
Snapshot(s) == [s EXCEPT !.op = IdleOp]

Init ==
    /\ blocks = {}
    /\ blockNumberMapping = [n \in Heights |-> None]
    /\ chainHeight = NoHeight
    /\ addressesState = DefaultAddressesState
    /\ forkState = NoForkState
    /\ txMetadata = {}
    /\ lastBlock = None
    /\ currentDifficulty = 0
    /\ triggerMiner = FALSE
    /\ txPool = {}
    /\ staleChecked = NoHeight
    /\ lock = None
    /\ op = DownOp
    /\ cpc = [c \in Callers |-> "idle"]
    /\ carg = [c \in Callers |-> None]
    /\ raced = [c \in Callers |-> FALSE]
    /\ reorgLimit \in ReorgLimits
    /\ entry = Snapshot(Cur)
    /\ pending = NoPending
    /\ accepted = [h \in Hash |-> 0]
    /\ calls = 0
    /\ crashes = 0
    /\ poolAdds = 0

Install(n) ==
    /\ blocks' = n.blocks
    /\ blockNumberMapping' = n.blockNumberMapping
    /\ chainHeight' = n.chainHeight
    /\ addressesState' = n.addressesState
    /\ forkState' = n.forkState
    /\ txMetadata' = n.txMetadata
    /\ lastBlock' = n.lastBlock
    /\ currentDifficulty' = n.currentDifficulty
    /\ triggerMiner' = n.triggerMiner
    /\ txPool' = n.txPool
    /\ staleChecked' = n.staleChecked
    /\ op' = n.op
    /\ UNCHANGED reorgLimit

\* the process is gone: so are its threads and its lock
ProcessGone ==
    /\ lock' = None
    /\ cpc' = [c \in Callers |-> "idle"]
    /\ carg' = [c \in Callers |-> None]
    /\ raced' = [c \in Callers |-> FALSE]
    /\ entry' = Snapshot(Stopped(Cur))

\* the operation in progress takes its next step; when AddBlock returns, the
\* deferred Unlock releases the lock
Advance ==
    LET n == StepOf(Cur)
    IN /\ Install(n)
       /\ IF n.op.pc = "down"
          THEN ProcessGone /\ UNCHANGED <<accepted, pending>>
          ELSE IF n.op.pc = "idle" /\ op.kind = "add"
          THEN /\ lock' = None
               /\ cpc' = [cpc EXCEPT ![lock] = "idle"]
               /\ carg' = [carg EXCEPT ![lock] = None]
               /\ raced' = [raced EXCEPT ![lock] = FALSE]
               /\ accepted' = IF n.op.ret = "true" /\ accepted[op.block] < 2
                              THEN [accepted EXCEPT ![op.block] = @ + 1]
                              ELSE accepted
               /\ entry' = Snapshot(Stopped(Cur))
               /\ pending' = NoPending
          ELSE UNCHANGED <<lock, cpc, carg, raced, accepted, entry, pending>>
       /\ UNCHANGED <<calls, crashes, poolAdds>>

\* the node starts: CreateChain, then Load(genesis)
Start ==
    /\ op.pc = "down"
    /\ op' = [IdleOp EXCEPT !.pc = "ld_begin", !.kind = "load"]
    /\ UNCHANGED <<storeVars, lastBlock, currentDifficulty, triggerMiner, txPool,
                   staleChecked, lock, callerVars, reorgLimit, historyVars>>

LoadStep == op.pc \in LoadPcs /\ Advance

\* a thread calls AddBlock(b) and waits for the lock
Call(c, b) ==
    /\ op.pc # "down"
    /\ cpc[c] = "idle"
    /\ calls < MaxCalls
    /\ cpc' = [cpc EXCEPT ![c] = "waiting"]
    /\ carg' = [carg EXCEPT ![c] = b]
    /\ UNCHANGED raced
    /\ calls' = calls + 1
    /\ UNCHANGED <<storeVars, chainVars, reorgLimit, entry, pending, accepted,
                   crashes, poolAdds>>

\* AddBlock line 200: c.lock.Lock()
Acquire(c) ==
    /\ cpc[c] = "waiting"
    /\ lock = None
    /\ op.pc = "idle"
    /\ lock' = c
    /\ cpc' = [cpc EXCEPT ![c] = "running"]
    /\ op' = [IdleOp EXCEPT !.pc = "ab_begin", !.kind = "add", !.block = carg[c],
                            !.raced = raced[c]]
    /\ raced' = [x \in Callers |->
                    IF x # c /\ cpc[x] = "waiting" /\ carg[x] = carg[c] THEN TRUE ELSE raced[x]]
    /\ entry' = Snapshot(Cur)
    /\ pending' = LET e == RunToEnd([Cur EXCEPT !.op = op'])
                  IN [active |-> FALSE, ok |-> e.op.pc = "idle",
                      tip |-> e.lastBlock, addr |-> e.addressesState]
    /\ UNCHANGED <<storeVars, lastBlock, currentDifficulty, triggerMiner, txPool,
                   staleChecked, carg, reorgLimit, accepted, calls, crashes, poolAdds>>

AddBlockStep == op.pc \in AddPcs /\ Advance

ForkRecoveryStep == op.pc \in ForkPcs /\ Advance

\* a transaction reaches the pool from the network
PoolAdd(tx) ==
    /\ op.pc = "idle"
    /\ lock = None
    /\ poolAdds < MaxPoolAdds
    /\ tx \notin txPool
    /\ txPool' = txPool \cup {tx}
    /\ poolAdds' = poolAdds + 1
    /\ UNCHANGED <<storeVars, lastBlock, currentDifficulty, triggerMiner,
                   staleChecked, lock, op, callerVars, reorgLimit, entry, pending,
                   accepted, calls, crashes>>

\* the node is stopped while no operation runs
Stop ==
    /\ op.pc = "idle"
    /\ lock = None
    /\ Install(Stopped(Cur))
    /\ ProcessGone
    /\ UNCHANGED <<pending, accepted, calls, crashes, poolAdds>>

\* the process is killed in the middle of an operation
Crash ==
    /\ op.pc \notin {"idle", "down"}
    /\ crashes < MaxCrashes
    /\ Install(Stopped(Cur))
    /\ ProcessGone
    /\ crashes' = crashes + 1
    /\ pending' = IF forkState.present /\ op.kind = "add"
                  THEN [pending EXCEPT !.active = TRUE]
                  ELSE pending
    /\ UNCHANGED <<accepted, calls, poolAdds>>

NextQuiescent ==
    \/ Start
    \/ LoadStep
    \/ \E c \in Callers, b \in Offered : Call(c, b)
    \/ \E c \in Callers : Acquire(c)
    \/ AddBlockStep
    \/ ForkRecoveryStep
    \/ \E tx \in AllTxIds : PoolAdd(tx)
    \/ Stop

Next == NextQuiescent \/ Crash

\* every run, the process possibly killed at any point
Spec == Init /\ [][Next]_vars

\* the runs in which the process is never killed in the middle of an operation
SpecQuiescent == Init /\ [][NextQuiescent]_vars

-----------------------------------------------------------------------------
(* The exported operations GetForkPoint, RemoveBlockFromMainchain and      *)
(* AddChain, each called on its own on a chain that block admission has    *)
(* left: a main chain from genesis to a tip, further blocks stored beside  *)
(* it, and possibly the ForkState of a recovery that was cut short.        *)

\* the blocks from genesis to h
RECURSIVE ChainTo(_)
ChainTo(h) == IF Blk(h).prev = None THEN {h} ELSE {h} \cup ChainTo(Blk(h).prev)

\* the address states that Load and the AddBlocks of the chain to h leave
RECURSIVE ChainAddressesState(_)
ChainAddressesState(h) ==
    IF h = genesisBlock THEN GenesisAddressesState
    ELSE ApplyStateChanges(ChainAddressesState(Blk(h).prev), h).st

\* the tips of the main chains explored
Tips == {"G", "B1", "B2", "S1", "S2"}

\* the blocks that may be stored beside the main chain
Beside == {"B1", "S1", "S2", "F1", "X0"}

\* the chain at rest with tip as its tip and the blocks of beside stored
AtRest(tip, beside) ==
    [blocks |-> ChainTo(tip) \cup beside,
     blockNumberMapping |->
         [n \in Heights |-> IF \E h \in ChainTo(tip) : Blk(h).block_number = n
                            THEN CHOOSE h \in ChainTo(tip) : Blk(h).block_number = n
                            ELSE None],
     chainHeight |-> Blk(tip).block_number,
     addressesState |-> ChainAddressesState(tip),
     forkState |-> NoForkState,
     txMetadata |-> ChainTo(tip),
     lastBlock |-> tip,
     currentDifficulty |-> Blk(tip).block_difficulty,
     triggerMiner |-> FALSE, txPool |-> {}, staleChecked |-> NoHeight,
     reorgLimit |-> 0, op |-> IdleOp]

\* the ForkState that forkRecovery persists for the initiator h (line 394)
ForkStateOf(s, h) ==
    [present |-> TRUE, initiator |-> h, forkPoint |-> GetForkPoint(s, h).forkPoint,
     newPath |-> GetForkPoint(s, h).hashPath, oldPath |-> <<>>]

\* AddChain(Reverse(forkState.NewMainchainHashPath), forkState) is entered
AddChainCalled(s) ==
    AddChainBegin([s EXCEPT !.op = [IdleOp EXCEPT !.kind = "addchain",
                                                  !.block = s.forkState.initiator,
                                                  !.fs = s.forkState]],
                  Reverse(s.forkState.newPath))

\* AddChain run until it has written k batches (or has ended before)
RECURSIVE AfterBatches(_, _)
AfterBatches(s, k) ==
    IF k = 0 \/ s.op.pc \notin {"ac_iter", "ac_commit"} THEN s
    ELSE AfterBatches(StepOf(s), IF s.op.pc = "ac_commit" THEN k - 1 ELSE k)

\* the chain after a recovery for h was cut short in AddChain, k batches
\* written, and the node was started again
CutShort(s, h, k) ==
    LET r == AfterBatches(AddChainCalled([s EXCEPT !.forkState = ForkStateOf(s, h)]), k)
    IN [r EXCEPT !.triggerMiner = FALSE, !.txPool = {}, !.staleChecked = NoHeight,
                 !.currentDifficulty = Blk(r.lastBlock).block_difficulty, !.op = IdleOp]

\* the states the exported operations are called in
CallStates ==
    LET rest == {AtRest(tip, beside) : tip \in Tips, beside \in SUBSET Beside}
        cut(s) == {CutShort(s, h, k) :
                      h \in {x \in s.blocks : /\ GetForkPoint(s, x).ok
                                               /\ GetForkPoint(s, x).hashPath # <<>>
                                               /\ TotalDifficulty(x) > TotalDifficulty(s.lastBlock)},
                      k \in 0..1}
    IN rest \cup {r \in UNION {cut(s) : s \in rest} : r.forkState.present /\ r.lastBlock # None}

InitCalls ==
    /\ \E s \in CallStates :
          /\ blocks = s.blocks
          /\ blockNumberMapping = s.blockNumberMapping
          /\ chainHeight = s.chainHeight
          /\ addressesState = s.addressesState
          /\ forkState = s.forkState
          /\ txMetadata = s.txMetadata
          /\ lastBlock = s.lastBlock
          /\ currentDifficulty = s.currentDifficulty
    /\ triggerMiner = FALSE
    /\ txPool = {}
    /\ staleChecked = NoHeight
    /\ lock = None
    /\ op = IdleOp
    /\ cpc = [c \in Callers |-> "idle"]
    /\ carg = [c \in Callers |-> None]
    /\ raced = [c \in Callers |-> FALSE]
    /\ reorgLimit = 0
    /\ entry = Snapshot(Cur)
    /\ pending = NoPending
    /\ accepted = [h \in Hash |-> 0]
    /\ calls = 0
    /\ crashes = 0
    /\ poolAdds = 0

\* an exported operation is called: once in a run
Called(n) ==
    /\ op.pc = "idle"
    /\ calls = 0
    /\ calls' = 1
    /\ Install(n)
    /\ entry' = Snapshot(Cur)
    /\ UNCHANGED <<lock, callerVars, pending, accepted, crashes, poolAdds>>

\* GetForkPoint(block): the results are kept in the frame
CallGetForkPoint(h) ==
    /\ h \in blocks
    /\ LET r == GetForkPoint(Cur, h)
       IN Called([Cur EXCEPT !.op = [IdleOp EXCEPT !.kind = "forkpoint", !.block = h,
                                                   !.ret = IF r.ok THEN "nil" ELSE "error",
                                                   !.forkHeaderHash = r.forkPoint,
                                                   !.hashPath = r.hashPath]])

\* RemoveBlockFromMainchain(tip, tip.BlockNumber(), batch) with a new batch
CallRemoveBlockFromMainchain ==
    /\ lastBlock # genesisBlock
    /\ Called(RemoveBlockFromMainchain(
                 [Cur EXCEPT !.op = [IdleOp EXCEPT !.kind = "remove", !.block = lastBlock,
                                                   !.pc = "rm_commit"]],
                 lastBlock))

RemoveStep == op.pc = "rm_commit" /\ Advance

\* AddChain(Reverse(forkState.NewMainchainHashPath), forkState)
CallAddChain ==
    /\ forkState.present
    /\ Called(AddChainCalled(Cur))

AddChainStep == op.kind = "addchain" /\ op.pc \in {"ac_iter", "ac_commit"} /\ Advance

NextCalls ==
    \/ \E h \in Hash : CallGetForkPoint(h)
    \/ CallRemoveBlockFromMainchain
    \/ RemoveStep
    \/ CallAddChain
    \/ AddChainStep

\* the exported operations, each run on its own
SpecCalls == InitCalls /\ [][NextCalls]_vars

-----------------------------------------------------------------------------
(* What the properties speak of.                                           *)

\* no AddBlock and no Load in progress
Quiescent == op.pc = "idle" /\ lock = None

\* this step is the return of an AddBlock call; entry is what the call found
Returns == op.kind = "add" /\ op.pc \notin {"idle", "down"} /\ op'.pc = "idle"

\* the persistent store of a state
StoreOf(s) ==
    <<s.blocks, s.blockNumberMapping, s.chainHeight, s.addressesState,
      s.forkState, s.txMetadata>>

RECURSIVE AncestorsStored(_, _)
AncestorsStored(bs, h) ==
    \/ Blk(h).prev = None
    \/ Blk(h).prev \in bs /\ AncestorsStored(bs, Blk(h).prev)

\* the address states that the chain ending in h yields from the genesis balances
GenesisBalances == [balance |-> [x \in Addrs |-> GenesisBalance[x]], ots |-> {}]

RECURSIVE ReplayChain(_)
ReplayChain(h) ==
    IF Blk(h).prev = None
    THEN ApplyStateChanges(GenesisBalances, h)
    ELSE LET p == ReplayChain(Blk(h).prev)
         IN IF p.ok THEN ApplyStateChanges(p.st, h) ELSE p

\* the blocks from h down to the first block that is canonical in s (excluded)
RECURSIVE Branch(_, _)
Branch(s, h) ==
    IF h = None \/ s.blockNumberMapping[Blk(h).block_number] = h
    THEN {}
    ELSE {h} \cup Branch(s, Blk(h).prev)

\* the canonical blocks of s that a reorganisation to h has to roll back
RolledBack(s, h) ==
    {x \in s.blocks : /\ s.blockNumberMapping[Blk(x).block_number] = x
                      /\ \E y \in Branch(s, h) :
                            Blk(y).prev # x /\ Blk(y).block_number <= Blk(x).block_number
                      /\ Blk(x).block_number <= Blk(s.lastBlock).block_number}

\* AddBlock(h) called in s gets past the height window (over the integers),
\* the duplicate check and the size limit
Admits(s, h) ==
    /\ s.lastBlock # None
    /\ ~(Blk(h).block_number < Blk(s.lastBlock).block_number - s.reorgLimit)
    /\ ~BeyondReorgLimit(s, h)
    /\ h \notin s.blocks
    /\ ~Blk(h).oversize

\* h opens a fork in s: heavier than the tip, parent stored but not the tip
OpensFork(s, h) ==
    /\ Admits(s, h)
    /\ s.blockNumberMapping[Blk(s.lastBlock).block_number] = s.lastBlock
    /\ Blk(h).prev \in s.blocks
    /\ Blk(h).prev # s.lastBlock
    /\ AncestorsStored(s.blocks, h)
    /\ TotalDifficulty(h) > TotalDifficulty(s.lastBlock)

-----------------------------------------------------------------------------
(* C1: Reorg.  When the tip is on the old main chain and AddBlock admits a  *)
(* block whose parent is stored but is not the tip, that is heavier than   *)
(* the tip and whose whole branch applies cleanly, AddBlock returns true,  *)
(* the tip is that block, the mapping above the fork point names the new   *)
(* branch, the rolled-back transactions are back in the pool and no        *)
(* ForkState is persisted.                                                 *)
C1_Reorg ==
    [][(Returns /\ OpensFork(entry, op.block) /\ ReplayChain(op.block).ok)
        => /\ op'.ret = "true"
           /\ lastBlock' = op.block
           /\ \A x \in Branch(entry, op.block) :
                 blockNumberMapping'[Blk(x).block_number] = x
           /\ \A x \in RolledBack(entry, op.block) :
                 (TxIds(x) \ UNION {TxIds(y) : y \in Branch(entry, op.block)}) \subseteq txPool'
           /\ ~forkState'.present]_vars

\* C2: Heaviest chain.  At every quiescent point the tip's cumulative
\* difficulty is at least that of every stored block whose ancestors are all
\* stored, and a block that only equals the tip's difficulty never replaces it.
C2_HeaviestTip ==
    [][/\ (Quiescent' /\ lastBlock' # None)
          => \A h \in blocks' :
                AncestorsStored(blocks', h)
                   => TotalDifficulty(lastBlock') >= TotalDifficulty(h)
       /\ (lastBlock # None /\ lastBlock' # None /\ lastBlock' # lastBlock)
          => TotalDifficulty(lastBlock') # TotalDifficulty(lastBlock)]_vars

\* C3: Canonical chain.  At every quiescent point at which the chain has a
\* tip, the tip is the canonical block at its height, every height up to the
\* tip's has a mapping, and the canonical block at each height h > 0 has the
\* canonical block at h - 1 as its parent.
C3_CanonicalChain ==
    (Quiescent /\ lastBlock # None)
       => /\ blockNumberMapping[Blk(lastBlock).block_number] = lastBlock
          /\ \A n \in 0..Blk(lastBlock).block_number :
                /\ blockNumberMapping[n] \in blocks
                /\ n > 0 => Blk(blockNumberMapping[n]).prev = blockNumberMapping[n - 1]

\* a tip two blocks above genesis, reached by extending the chain twice
C3_Witness ==
    /\ Quiescent
    /\ lastBlock # None
    /\ Blk(lastBlock).block_number = 2
    /\ chainHeight = 2

\* the tip of the persisted chain: the canonical block at the chain height
PersistedTip == blockNumberMapping[chainHeight]

\* C4: Address states.  At every quiescent point of a run of Loads and
\* AddBlocks the persisted address states are those that the canonical chain
\* from genesis to the tip yields from the genesis balances, block by block.
C4_AddressStateIsCanonicalReplay ==
    (Quiescent /\ chainHeight # NoHeight)
       => /\ PersistedTip \in blocks
          /\ lastBlock # None => lastBlock = PersistedTip
          /\ ReplayChain(PersistedTip).ok
          /\ addressesState = ReplayChain(PersistedTip).st

\* a tip above genesis with a transfer applied, a side block stored, and a
\* heavier block that opened a fork stored as well
C4_Witness ==
    /\ Quiescent
    /\ lastBlock # None
    /\ Blk(lastBlock).block_number >= 1
    /\ <<"a", 0>> \in addressesState.ots
    /\ Cardinality(addressesState.ots) >= 2
    /\ \E h \in blocks : TotalDifficulty(h) > TotalDifficulty(lastBlock)
    /\ \E h \in blocks : h # lastBlock /\ Blk(h).block_number = Blk(lastBlock).block_number

\* C5: Crash safety.  When the process is killed while a ForkState is
\* persisted and is restarted, Load leaves the tip and the address states that
\* the interrupted AddBlock yields when it is not interrupted, and no ForkState.
C5_CrashSafety ==
    (op.pc = "idle" /\ op.kind = "load" /\ pending.active /\ pending.ok)
       => /\ lastBlock = pending.tip
          /\ addressesState = pending.addr
          /\ ~forkState.present

\* C6: Failed fork recovery.  When AddBlock admits a heavier block whose
\* parent is not the tip and a block of its branch fails to apply, AddBlock
\* returns false, the tip, its mapping and the address states are those of
\* before the call, and no ForkState is persisted.
C6_FailedForkRecovery ==
    [][(Returns /\ OpensFork(entry, op.block) /\ ~ReplayChain(op.block).ok)
        => /\ op'.ret = "false"
           /\ lastBlock' = entry.lastBlock
           /\ blockNumberMapping' = entry.blockNumberMapping
           /\ chainHeight' = entry.chainHeight
           /\ addressesState' = entry.addressesState
           /\ ~forkState'.present]_vars

\* C7: Rejection leaves no trace.  Whenever AddBlock returns false the
\* persisted store is what it was before the call, and a block that was not
\* stored before is not stored after.
C7_RejectionLeavesNoTrace ==
    [][(Returns /\ op'.ret = "false")
        => /\ <<blocks', blockNumberMapping', chainHeight', addressesState',
                forkState', txMetadata'>> = StoreOf(entry)
           /\ op.block \notin entry.blocks => op.block \notin blocks']_vars

\* AddBlock has returned false for a block that extends the tip, is new and
\* within the size limit: its transactions did not apply
C7_Witness ==
    /\ op.pc = "idle"
    /\ op.kind = "add"
    /\ op.ret = "false"
    /\ lastBlock # None
    /\ op.block \notin blocks
    /\ ~Blk(op.block).oversize
    /\ Blk(op.block).prev = lastBlock
    /\ ~BeyondReorgLimit(Cur, op.block)
    /\ ~ApplyStateChanges(addressesState, op.block).ok

\* the height window over the integers
TooOld(h) == Blk(h).block_number < Blk(lastBlock).block_number - reorgLimit

\* C8: Height window.  AddBlock rejects a block for being too old exactly
\* when block_number < tip.block_number - reorg_limit over the integers: a
\* block that is too old is rejected, and a block that is not too old, is not
\* stored, is within the size limit and applies when it extends the tip is
\* not rejected.
C8_HeightWindow ==
    [][(op.pc = "ab_begin" /\ lastBlock # None /\ op'.pc # "ab_begin")
        => /\ TooOld(op.block) => (op'.pc = "idle" /\ op'.ret = "false")
           /\ ( /\ ~TooOld(op.block)
                /\ op.block \notin blocks
                /\ ~Blk(op.block).oversize
                /\ Blk(op.block).prev = lastBlock
                      => ApplyStateChanges(addressesState, op.block).ok )
              => op'.pc \in {"ab_commit", "ab_forkcommit"}]_vars

\* C9: Duplicates under concurrency.  AddBlock of a stored block returns
\* false and changes nothing; the calls are serialised by the chain lock; and
\* of all calls with one block at most one returns true.
C9_DuplicateAdmission ==
    [][/\ (Returns /\ op.block \in entry.blocks)
          => /\ op'.ret = "false"
             /\ <<blocks', blockNumberMapping', chainHeight', addressesState',
                  forkState', txMetadata'>> = StoreOf(entry)
             /\ lastBlock' = entry.lastBlock
             /\ txPool' = entry.txPool
       /\ \A h \in Hash : accepted'[h] <= 1
       /\ Cardinality({c \in Callers : cpc'[c] = "running"}) <= 1
       /\ (op'.kind = "add" /\ op'.pc \notin {"idle", "down"})
          => (lock' \in Callers /\ cpc'[lock'] = "running" /\ carg'[lock'] = op'.block)]_vars

\* a call has returned false for a block that another call, which took the
\* lock while this one waited for it, had got accepted
C9_Witness ==
    /\ op.pc = "idle"
    /\ op.kind = "add"
    /\ op.raced
    /\ op.ret = "false"
    /\ accepted[op.block] = 1
    /\ op.block \in blocks

\* h extends the tip of s, is admitted, applies and is heavier than the tip
ExtendsTip(s, h) ==
    /\ Admits(s, h)
    /\ Blk(h).prev = s.lastBlock
    /\ ApplyStateChanges(s.addressesState, h).ok
    /\ TotalDifficulty(h) > TotalDifficulty(s.lastBlock)

\* C10: Linear extension.  When AddBlock admits a block B that extends the
\* tip, is within the size limit, applies and is heavier than the tip, it
\* returns true; its one batch commits the block, the address states, the
\* mapping of B's height and the chain height together; the tip is B, B's
\* transactions are out of the pool, the pool was asked to expire at B's
\* height, and no ForkState is created.
C10_LinearExtension ==
    [][(Returns /\ ExtendsTip(entry, op.block))
        => /\ op'.ret = "true"
           /\ StoreOf(Cur) = StoreOf(entry)
           /\ blocks' = entry.blocks \cup {op.block}
           /\ addressesState' = ApplyStateChanges(entry.addressesState, op.block).st
           /\ blockNumberMapping' =
                 [entry.blockNumberMapping EXCEPT ![Blk(op.block).block_number] = op.block]
           /\ chainHeight' = Blk(op.block).block_number
           /\ txMetadata' = entry.txMetadata \cup {op.block}
           /\ lastBlock' = op.block
           /\ txPool' = entry.txPool \ TxIds(op.block)
           /\ staleChecked' = Blk(op.block).block_number
           /\ triggerMiner'
           /\ ~forkState.present
           /\ ~forkState'.present]_vars

\* AddBlock has returned true for a block that is now the tip, on its
\* parent, and whose transfer had been in the pool
C10_Witness ==
    /\ op.pc = "idle"
    /\ op.kind = "add"
    /\ op.ret = "true"
    /\ lastBlock = op.block
    /\ chainHeight = Blk(op.block).block_number
    /\ blockNumberMapping[chainHeight - 1] = Blk(op.block).prev
    /\ TxIds(op.block) # {}
    /\ poolAdds = 1
    /\ txPool = {}
    /\ staleChecked = chainHeight

-----------------------------------------------------------------------------
\* h is admitted in s and is not heavier than the tip
SideBlock(s, h) ==
    /\ Admits(s, h)
    /\ Blk(h).prev = s.lastBlock => ApplyStateChanges(s.addressesState, h).ok
    /\ TotalDifficulty(h) <= TotalDifficulty(s.lastBlock)

C12_ColdBootstrap ==
    [][(op.kind = "load" /\ op.pc = "ld_height" /\ op'.pc = "idle")
        => /\ op'.ret = "nil"
           /\ lastBlock' = genesisBlock
           /\ currentDifficulty' > 0
           /\ genesisBlock \in blocks'
           /\ blockNumberMapping'[0] = genesisBlock
           /\ chainHeight' = 0
           /\ ReplayChain(genesisBlock).ok
           /\ addressesState' = ReplayChain(genesisBlock).st]_vars

\* C13: ForkState lifecycle.  A ForkState is persisted only while a fork
\* recovery is under way or after the process was killed during one (until
\* the next Load has resumed it), it is persisted all through a recovery, and
\* at every quiescent point the store holds none.
C13_ForkStateLifecycle ==
    /\ Quiescent => ~forkState.present
    /\ forkState.present => (op.pc \in ForkPcs \/ op.pc \in LoadPcs \/ op.pc = "down")
    /\ op.pc \in ForkPcs => forkState.present
    /\ (forkState.present /\ op.pc \in LoadPcs \cup {"down"}) => pending.active

\* a Load has returned that resumed the recovery a kill had interrupted
C13_Witness ==
    /\ Quiescent
    /\ op.kind = "load"
    /\ pending.active
    /\ crashes = 1
    /\ ~forkState.present
    /\ \E h \in blocks : h # lastBlock /\ Blk(h).prev # lastBlock /\ Blk(h).block_number > 0

\* the tip is in the store as the tip: block, mapping and chain height
TipCommitted(s) ==
    /\ s.lastBlock \in s.blocks
    /\ s.blockNumberMapping[Blk(s.lastBlock).block_number] = s.lastBlock
    /\ s.chainHeight = Blk(s.lastBlock).block_number

\* C14: Consistent reads.  While an AddBlock runs it holds the chain lock,
\* and what GetLastBlock and Height read at that time is the tip of the
\* quiescent point the call started from, or the tip the call leaves with its
\* batch committed.
C14_ConsistentReads ==
    (op.kind = "add" /\ op.pc \notin {"idle", "down"})
       => /\ lock \in Callers
          /\ \/ GetLastBlock(Cur) = entry.lastBlock
             \/ GetLastBlock(Cur) = pending.tip /\ TipCommitted(Cur)

RECURSIVE IsAncestor(_, _)
\* a is a proper ancestor of h
IsAncestor(a, h) ==
    /\ Blk(h).prev # None
    /\ (Blk(h).prev = a \/ IsAncestor(a, Blk(h).prev))

\* C15: Rollback.  Called with a fork point that is a proper ancestor of the
\* tip while the tip is the canonical block at its height, Rollback removes
\* the tip (its first pass ends at the batch of the removal, the tip's hash
\* appended to the hash path and to the old path of the ForkState) instead of
\* returning at once.
C15_Rollback ==
    [][(/\ op.pc = "rb"
        /\ op'.pc # "rb"
        /\ lastBlock # None
        /\ op.forkHeaderHash # None
        /\ IsAncestor(op.forkHeaderHash, lastBlock)
        /\ GetBlockByNumber(Cur, Blk(lastBlock).block_number) = lastBlock)
        => /\ op'.pc = "rb_commit"
           /\ op'.rbHashPath = Append(op.rbHashPath, lastBlock)
           /\ op.rbFs => op'.batch.fork.oldPath = Append(op.fs.oldPath, lastBlock)]_vars

-----------------------------------------------------------------------------
\* this step is the call of an exported operation
CallOf(kinds) == op.pc = "idle" /\ calls = 0 /\ calls' = 1 /\ op'.kind \in kinds

\* the transactions of h reverted from the last to the first
RECURSIVE RevertTxsFrom(_, _, _)
RevertTxsFrom(as, txs, i) ==
    IF i < 1 THEN as ELSE RevertTxsFrom(RevertTx(as, txs[i]), txs, i - 1)

\* C16: Revert undoes apply.  RemoveBlockFromMainchain, called for the tip
\* with a batch, returns; until the batch is written the store is what it
\* was; the block's transactions are back in the pool; and when the batch is
\* written the address states are those of before the call with every
\* transaction of the block reverted, last to first, the chain height is
\* block_number - 1, the mapping of the block's height is gone and so is the
\* block's transaction metadata.
C16_RevertUndoesApply ==
    [][/\ CallOf({"remove", "none"})
          => /\ op'.pc = "rm_commit"
             /\ <<blocks', blockNumberMapping', chainHeight', addressesState',
                  forkState', txMetadata'>> = StoreOf(Cur)
             /\ TxIds(lastBlock) \subseteq txPool'
       /\ (op.pc = "rm_commit" /\ op'.pc = "idle")
          => /\ addressesState' =
                   RevertTxsFrom(entry.addressesState, Blk(op.block).txs, Len(Blk(op.block).txs))
             /\ Blk(op.block).prev = genesisBlock
                   => addressesState' = ChainAddressesState(genesisBlock)
             /\ chainHeight' = Blk(op.block).block_number - 1
             /\ blockNumberMapping' =
                   [entry.blockNumberMapping EXCEPT ![Blk(op.block).block_number] = None]
             /\ txMetadata' = entry.txMetadata \ {op.block}]_vars

\* h and its ancestors as far as the parents are stored
RECURSIVE StoredLine(_, _)
StoredLine(s, h) ==
    IF Blk(h).prev # None /\ Blk(h).prev \in s.blocks
    THEN {h} \cup StoredLine(s, Blk(h).prev)
    ELSE {h}

\* the blocks of the stored line of h that are on the main chain
OnMainChain(s, h) ==
    {x \in StoredLine(s, h) : s.blockNumberMapping[Blk(x).block_number] = x}

\* C17: Fork-point discovery.  For a stored block, GetForkPoint returns the
\* nearest block of its line (itself included) that is on the main chain, and
\* the hashes of the blocks above it, from the given block down to the child
\* of the fork point; when the line has no block on the main chain (a parent
\* is missing, or height 0 is reached without a match) it returns an error
\* and no fork point.
C17_ForkPointDiscovery ==
    [][CallOf({"forkpoint"})
        => LET h == op'.block
               canon == OnMainChain(Cur, h)
           IN IF canon = {}
              THEN op'.ret = "error" /\ op'.forkHeaderHash = None
              ELSE /\ op'.ret = "nil"
                   /\ op'.forkHeaderHash \in canon
                   /\ \A x \in canon :
                         Blk(x).block_number <= Blk(op'.forkHeaderHash).block_number
                   /\ Len(op'.hashPath) =
                         Blk(h).block_number - Blk(op'.forkHeaderHash).block_number
                   /\ \A i \in 1..Len(op'.hashPath) :
                         /\ op'.hashPath[i] \in StoredLine(Cur, h)
                         /\ Blk(op'.hashPath[i]).block_number = Blk(h).block_number - i + 1]_vars

\* GetForkPoint has returned the fork point and a path of two blocks
C17_Witness ==
    /\ op.kind = "forkpoint"
    /\ op.ret = "nil"
    /\ Len(op.hashPath) = 2
    /\ op.hashPath[1] = op.block
    /\ Blk(op.hashPath[2]).prev = op.forkHeaderHash
    /\ op.forkHeaderHash # lastBlock

\* the index in path after the tip of s, or 1 when the tip is not in it
AfterTip(s, path) ==
    IF \E i \in 1..Len(path) : path[i] = s.lastBlock
    THEN 1 + (CHOOSE i \in 1..Len(path) : path[i] = s.lastBlock)
    ELSE 1

\* C18: Branch replay.  AddChain starts after the tip when the tip is in the
\* path; for each further hash, in order, it applies the block and commits
\* one batch that moves the tip, the chain height and the mapping to it; when
\* a block does not apply it returns false at once, the store and the
\* ForkState untouched by that block; after the last hash it returns true,
\* the tip the last hash of the path and the ForkState deleted.
C18_BranchReplay ==
    [][/\ CallOf({"addchain"})
          => /\ op'.acPath = Reverse(forkState.newPath)
             /\ op'.acI = AfterTip(Cur, op'.acPath)
       /\ (op.kind = "addchain" /\ op.pc = "ac_iter" /\ op.acI <= Len(op.acPath))
          => /\ <<blocks', blockNumberMapping', chainHeight', addressesState',
                  forkState', txMetadata'>> = StoreOf(Cur)
             /\ IF ApplyStateChanges(addressesState, op.acPath[op.acI]).ok
                THEN op'.pc = "ac_commit"
                ELSE /\ op'.pc = "idle"
                     /\ op'.ret = "false"
                     /\ lastBlock' = lastBlock
                     /\ forkState'.present
       /\ (op.kind = "addchain" /\ op.pc = "ac_commit")
          => LET h == op.acPath[op.acI]
             IN /\ lastBlock' = h
                /\ blocks' = blocks
                /\ chainHeight' = Blk(h).block_number
                /\ blockNumberMapping' = [blockNumberMapping EXCEPT ![Blk(h).block_number] = h]
                /\ addressesState' = ApplyStateChanges(addressesState, h).st
                /\ txMetadata' = txMetadata \cup {h}
                /\ forkState' = forkState
                /\ op'.pc = "ac_iter"
                /\ op'.acI = op.acI + 1
       /\ (op.kind = "addchain" /\ op.pc = "ac_iter" /\ op.acI > Len(op.acPath))
          => /\ op'.pc = "idle"
             /\ op'.ret = "true"
             /\ ~forkState'.present
             /\ Len(op.acPath) > 0 => lastBlock' = op.acPath[Len(op.acPath)]]_vars

\* AddChain, entered with the tip on the first hash of a path of two, has
\* returned true with the second as the tip
C18_Witness ==
    /\ op.pc = "idle"
    /\ op.kind = "addchain"
    /\ op.ret = "true"
    /\ Len(entry.forkState.newPath) = 2
    /\ entry.lastBlock = entry.forkState.newPath[2]
    /\ lastBlock = entry.forkState.newPath[1]
    /\ chainHeight = 2
    /\ ~forkState.present

-----------------------------------------------------------------------------
\* h is admitted in s, heavier than the tip and not on the tip, and the walk
\* from h to the main chain fails
OpensForkWithoutForkPoint(s, h) ==
    /\ Admits(s, h)
    /\ Blk(h).prev # s.lastBlock
    /\ TotalDifficulty(h) > TotalDifficulty(s.lastBlock)
    /\ ~GetForkPoint(s, h).ok

\* C19: Fork-point failure is an abort.  When AddBlock opens a fork for a
\* block from which GetForkPoint finds no fork point, AddBlock returns false
\* and the tip, the mapping, the chain height and the address states are
\* those of before the call.
C19_ForkPointFailureAborts ==
    [][(Returns /\ OpensForkWithoutForkPoint(entry, op.block))
        => /\ op'.ret = "false"
           /\ lastBlock' = entry.lastBlock
           /\ blockNumberMapping' = entry.blockNumberMapping
           /\ chainHeight' = entry.chainHeight
           /\ addressesState' = entry.addressesState]_vars

\* the ForkState of s with the fork point and the new path of its initiator
\* filled in, as line 394 persists them
Discovered(s) ==
    [s.op.fs EXCEPT !.forkPoint = GetForkPoint(s, s.op.block).forkPoint,
                    !.newPath = GetForkPoint(s, s.op.block).hashPath]

\* forkRecovery entered in s with that ForkState instead of the empty one
ResumedFrom(s) == [s EXCEPT !.op.fs = Discovered(s), !.forkState = Discovered(s)]

\* C20: Fresh and resumed recovery agree.  A forkRecovery that starts with
\* an empty fork point and discovers one ends with the tip, the mapping, the
\* chain height, the address states and the return value of the forkRecovery
\* that is entered in the same state with the fork point and the new path
\* already in its ForkState.
C20_FreshAndResumedAgree ==
    (/\ op.pc = "fr_start"
     /\ op.fs.forkPoint = None
     /\ GetForkPoint(Cur, op.block).ok)
       => LET fresh == RunToEnd(Cur)
              resumed == RunToEnd(ResumedFrom(Cur))
          IN /\ fresh.lastBlock = resumed.lastBlock
             /\ fresh.blockNumberMapping = resumed.blockNumberMapping
             /\ fresh.chainHeight = resumed.chainHeight
             /\ fresh.addressesState = resumed.addressesState
             /\ fresh.op.ret = resumed.op.ret

====
